---- MODULE Spec2Model ----
(***************************************************************************)
(* The movie catalog of app.py: the two tables (user, movie), the login    *)
(* session, the command-line provisioning commands and the request         *)
(* handlers, one action per command or handler.                            *)
(***************************************************************************)
EXTENDS Integers, Sequences, FiniteSets, TLC

VARIABLES
    phase,      \* "cli": the commands run from the shell; "serving": requests arrive
    users,      \* the user table, rows in rowid order
    movies,     \* the movie table, rows in rowid order
    session,    \* the _user_id Flask-Login keeps in the signed session cookie
    last,       \* the view that answered the last request, and its response
    ret         \* the last direct call of User.validate_password and its outcome

vars == <<phase, users, movies, session, last, ret>>

-----------------------------------------------------------------------------
(* Bounds of the model *)

MaxUsers == 2       \* rows of the user table
MaxMovieId == 2     \* largest movie id handed out
ForgeCount == 1     \* how many entries of forge's movie list are inserted

-----------------------------------------------------------------------------
(* Python values: None is <<>>, any other value v is <<v>> *)

None == <<>>
Some(v) == <<v>>

\* falsiness of an optional string: "not s" is true of None and of ""
Falsy(s) == IF s = None THEN TRUE ELSE s[1] = ""

TitleLimit == 60
YearLength == 4
NameLimit == 20

-----------------------------------------------------------------------------
(* Inputs *)

T60 == "The Englishman Who Went Up a Hill But Came Down a Mountain 1"
T61 == "The Englishman Who Went Up a Hill But Came Down a Mountain 1!"
N20 == "Hayao Miyazaki Fan 1"
N21 == "Hayao Miyazaki Fan 1!"

TitleInputs == {None, Some(""), Some(T60), Some(T61)}
YearInputs == {None, Some(""), Some("201"), Some("2016"), Some("20166")}
MovieForms == [title : TitleInputs, year : YearInputs]
NameInputs == {None, Some(""), Some(N20), Some(N21)}
SettingsForms == [name : NameInputs]
Usernames == {"admin", "guest"}
Passwords == {"secret", "hunter2"}
LoginForms == [username : {None, Some("")} \cup {Some(u) : u \in Usernames},
               password : {None, Some("")} \cup {Some(p) : p \in Passwords}]
Salts == {"s1"}
Methods == {"GET", "POST"}

\* a GET carries no form
FormsOf(method, forms, empty) == IF method = "GET" THEN {empty} ELSE forms
NoLoginForm == [username |-> None, password |-> None]
NoSettingsForm == [name |-> None]
NoMovieForm == [title |-> None, year |-> None]
MovieIdInputs == 1 .. (MaxMovieId + 1)

-----------------------------------------------------------------------------
(* werkzeug.security, as app.py uses it *)

\* the digest of a salted password, an injective function of both
Digest(salt, password) == <<"pbkdf2:sha256", salt, password>>

generate_password_hash(password, salt) ==
    [salt |-> salt, digest |-> Digest(salt, password)]

\* outcome of a call: a returned value, or the exception it raised
Return(v) == [exc |-> "", val |-> v]
Raise(e) == [exc |-> e, val |-> FALSE]

\* pwhash.count("$") / pwhash.split("$") on None raises AttributeError
check_password_hash(pwhash, password) ==
    IF pwhash = None
    THEN Raise("AttributeError")
    ELSE Return(pwhash[1].digest = Digest(pwhash[1].salt, password))

-----------------------------------------------------------------------------
(* The data model *)

User(id, name, username) ==
    [id |-> id, name |-> name, username |-> username, password_hash |-> None]

set_password(user, password, salt) ==
    [user EXCEPT !.password_hash = Some(generate_password_hash(password, salt))]

\* the stored hash is never consulted
validate_password_any(user, password) == Return(TRUE)

validate_password(user, password) ==
    check_password_hash(user.password_hash, password)

Movie(id, title, year) == [id |-> id, title |-> title, year |-> year]

Ids(table) == {table[i].id : i \in 1 .. Len(table)}

\* every row gets the first id
NextId_first(table) == 1

\* an INTEGER PRIMARY KEY column: the next rowid is the largest one plus one
NextId(table) ==
    IF table = <<>> THEN 1
    ELSE (CHOOSE m \in Ids(table) : \A n \in Ids(table) : n <= m) + 1

\* Query.get(id): the row, or None
Get(table, id) ==
    IF id \in Ids(table)
    THEN Some(table[CHOOSE i \in 1 .. Len(table) : table[i].id = id])
    ELSE None

\* Query.first()
First(table) == IF table = <<>> THEN None ELSE Some(table[1])

Index(table, id) == CHOOSE i \in 1 .. Len(table) : table[i].id = id

\* removes the oldest row, whatever the id
Delete_oldest(table, id) == Tail(table)

Delete(table, id) == SelectSeq(table, LAMBDA r : r.id # id)

-----------------------------------------------------------------------------
(* Flask-Login *)

load_user(user_id) == Get(users, user_id)

\* current_user.is_authenticated: the session names a user that loads
IsAuthenticated == session # None /\ load_user(session[1]) # None

current_user_id == session[1]

-----------------------------------------------------------------------------
(* Responses: the status, the endpoint a redirect points to, and the message  *)
(* the request flashed. The flashed messages wait in the session until a     *)
(* template drains them; the templates are not part of app.py, so `last`     *)
(* keeps the message of the request and no queue.                            *)

NoRequest ==
    [endpoint |-> "", method |-> "", movie_id |-> 0,
     status |-> 0, location |-> "", flash |-> ""]

Response(endpoint, method, movie_id, status, location, flash) ==
    [endpoint |-> endpoint, method |-> method, movie_id |-> movie_id,
     status |-> status, location |-> location, flash |-> flash]

\* login_manager.unauthorized(): flash login_message, redirect to login_view
login_view == "login"
login_message == "Invalid login."

Unauthorized(endpoint, method, movie_id) ==
    /\ last' = Response(endpoint, method, movie_id, 302, login_view, login_message)
    /\ UNCHANGED <<phase, users, movies, session, ret>>

\* a response that changes neither the tables nor the session
Answer(endpoint, method, movie_id, status, location, flash) ==
    /\ last' = Response(endpoint, method, movie_id, status, location, flash)
    /\ UNCHANGED <<phase, users, movies, session, ret>>

-----------------------------------------------------------------------------
(* The command line *)

initdb(drop) ==
    /\ users' = IF drop THEN <<>> ELSE users
    /\ movies' = IF drop THEN <<>> ELSE movies
    /\ UNCHANGED <<phase, session, last, ret>>

ForgeMovies ==
    << [title |-> "My Neighbor Totoro", year |-> "1988"],
       [title |-> "Dead Poets Society", year |-> "1989"],
       [title |-> "A Perfect World", year |-> "1993"],
       [title |-> "Leon", year |-> "1994"],
       [title |-> "Mahjong", year |-> "1996"],
       [title |-> "Swallowtail Butterfly", year |-> "1996"],
       [title |-> "King of Comedy", year |-> "1999"],
       [title |-> "Devils on the Doorstep", year |-> "1999"],
       [title |-> "WALL-E", year |-> "2008"],
       [title |-> "The Pork of Music", year |-> "2012"] >>

forge ==
    /\ users' = Append(users, User(NextId(users), "Grey Li", None))
    /\ movies' = movies \o
                 [i \in 1 .. ForgeCount |->
                    Movie(NextId(movies) + i - 1, ForgeMovies[i].title, ForgeMovies[i].year)]
    /\ UNCHANGED <<phase, session, last, ret>>

admin(username, password, salt) ==
    /\ users' =
         IF First(users) # None
         THEN [users EXCEPT ![1] =
                 set_password([users[1] EXCEPT !.username = Some(username)],
                              password, salt)]
         ELSE <<set_password(User(NextId(users), "Admin", Some(username)),
                             password, salt)>>
    /\ UNCHANGED <<phase, movies, session, last, ret>>

\* flask run: from here on the requests arrive
Serve ==
    /\ phase = "cli"
    /\ phase' = "serving"
    /\ UNCHANGED <<users, movies, session, last, ret>>

-----------------------------------------------------------------------------
(* The views *)

login_user(user) == session' = Some(user.id)

\* the session keeps its user
logout_user_keep == session' = session

logout_user == session' = None

login(method, form) ==
    IF method = "POST"
    THEN IF form.username = None \/ form.password = None
         THEN \* request.form[...] of a missing field: 400 Bad Request
              Answer("login", method, 0, 400, "", "")
         ELSE LET username == form.username[1]
                  password == form.password[1]
              IN  IF username = "" \/ password = ""
                  THEN Answer("login", method, 0, 302, "login", "Invalid input.")
                  ELSE LET user == First(users) IN
                       IF user = None
                       THEN \* user.username of None: AttributeError
                            Answer("login", method, 0, 500, "", "")
                       ELSE IF Some(username) = user[1].username
                            THEN LET ok == validate_password(user[1], password) IN
                                 IF ok.exc # ""
                                 THEN Answer("login", method, 0, 500, "", "")
                                 ELSE IF ok.val
                                      THEN /\ login_user(user[1])
                                           /\ last' = Response("login", method, 0, 302,
                                                               "index", "Login success.")
                                           /\ UNCHANGED <<phase, users, movies, ret>>
                                      ELSE Answer("login", method, 0, 302, "login",
                                                  "Invalid username or password.")
                            ELSE Answer("login", method, 0, 302, "login",
                                        "Invalid username or password.")
    ELSE Answer("login", method, 0, 200, "", "")

logout ==
    IF ~IsAuthenticated
    THEN Unauthorized("logout", "GET", 0)
    ELSE /\ logout_user
         /\ last' = Response("logout", "GET", 0, 302, "index", "Goodbye.")
         /\ UNCHANGED <<phase, users, movies, ret>>

settings(method, form) ==
    IF ~IsAuthenticated
    THEN Unauthorized("settings", method, 0)
    ELSE IF method = "POST"
         THEN IF form.name = None
              THEN Answer("settings", method, 0, 400, "", "")
              ELSE LET name == form.name[1] IN
                   IF name = "" \/ Len(name) > NameLimit
                   THEN \* flash, then url_for('settings.'): no such endpoint,
                        \* BuildError, 500 Internal Server Error
                        Answer("settings", method, 0, 500, "", "Invalid input.")
                   ELSE /\ users' = [users EXCEPT
                                       ![Index(users, current_user_id)].name = name]
                        /\ last' = Response("settings", method, 0, 302, "index",
                                            "Settings updated.")
                        /\ UNCHANGED <<phase, movies, session, ret>>
         ELSE Answer("settings", method, 0, 200, "", "")

\* the title's length is not checked
index_invalid_nolimit(title, year) ==
    IF Falsy(title) THEN TRUE
    ELSE IF Falsy(year) THEN TRUE
    ELSE Len(year[1]) # YearLength

index_invalid(title, year) ==
    IF Falsy(title) THEN TRUE
    ELSE IF Falsy(year) THEN TRUE
    ELSE IF Len(year[1]) # YearLength THEN TRUE
    ELSE Len(title[1]) > TitleLimit

index(method, form) ==
    IF method = "POST"
    THEN IF ~IsAuthenticated
         THEN Answer("index", method, 0, 302, "index", "")
         ELSE LET title == form.title
                  year == form.year
              IN  IF index_invalid(title, year)
                  THEN Answer("index", method, 0, 302, "index", "Invalid input.")
                  ELSE /\ movies' = Append(movies,
                                           Movie(NextId(movies), title[1], year[1]))
                       /\ last' = Response("index", method, 0, 302, "index",
                                           "Item created.")
                       /\ UNCHANGED <<phase, users, session, ret>>
    ELSE Answer("index", method, 0, 200, "", "")

\* the year's length is not checked
edit_invalid_noyear(title, year) ==
    IF title = "" THEN TRUE
    ELSE IF year = "" THEN TRUE
    ELSE Len(title) > TitleLimit

\* the title may be one character too long
edit_invalid_offbyone(title, year) ==
    IF title = "" THEN TRUE
    ELSE IF year = "" THEN TRUE
    ELSE IF Len(year) # YearLength THEN TRUE
    ELSE Len(title) > TitleLimit + 1

edit_invalid(title, year) ==
    IF title = "" THEN TRUE
    ELSE IF year = "" THEN TRUE
    ELSE IF Len(year) # YearLength THEN TRUE
    ELSE Len(title) > TitleLimit

edit(method, movie_id, form) ==
    IF ~IsAuthenticated
    THEN Unauthorized("edit", method, movie_id)
    ELSE LET movie == Get(movies, movie_id) IN
         IF movie = None
         THEN Answer("edit", method, movie_id, 404, "", "")
         ELSE IF method = "POST"
              THEN IF form.title = None \/ form.year = None
                   THEN Answer("edit", method, movie_id, 400, "", "")
                   ELSE LET title == form.title[1]
                            year == form.year[1]
                        IN  IF edit_invalid(title, year)
                            THEN Answer("edit", method, movie_id, 302, "edit",
                                        "Invalid input.")
                            ELSE /\ movies' = [movies EXCEPT
                                                 ![Index(movies, movie_id)] =
                                                    Movie(movie[1].id, title, year)]
                                 /\ last' = Response("edit", method, movie_id, 302,
                                                     "index", "Item updated.")
                                 /\ UNCHANGED <<phase, users, session, ret>>
              ELSE Answer("edit", method, movie_id, 200, "", "")

\* the view without @login_required
delete_unprotected(movie_id) ==
    IF Get(movies, movie_id) = None
    THEN Answer("delete", "POST", movie_id, 404, "", "")
    ELSE /\ movies' = Delete(movies, movie_id)
         /\ last' = Response("delete", "POST", movie_id, 302, "index",
                             "Item deleted.")
         /\ UNCHANGED <<phase, users, session, ret>>

delete(movie_id) ==
    IF ~IsAuthenticated
    THEN Unauthorized("delete", "POST", movie_id)
    ELSE IF Get(movies, movie_id) = None
         THEN Answer("delete", "POST", movie_id, 404, "", "")
         ELSE /\ movies' = Delete(movies, movie_id)
              /\ last' = Response("delete", "POST", movie_id, 302, "index",
                                  "Item deleted.")
              /\ UNCHANGED <<phase, users, session, ret>>

-----------------------------------------------------------------------------
(* The catalog application: provisioning from the shell, then requests *)

Init ==
    /\ phase = "cli"
    /\ users = <<>>
    /\ movies = <<>>
    /\ session = None
    /\ last = NoRequest
    /\ ret = None

Initdb == phase = "cli" /\ \E drop \in BOOLEAN : initdb(drop)

Forge ==
    /\ phase = "cli"
    /\ Len(users) < MaxUsers
    /\ NextId(movies) + ForgeCount - 1 <= MaxMovieId
    /\ forge

Admin ==
    /\ phase = "cli"
    /\ \E username \in Usernames, password \in Passwords, salt \in Salts :
          admin(username, password, salt)

LoginRequest ==
    /\ phase = "serving"
    /\ \E method \in Methods :
          \E form \in FormsOf(method, LoginForms, NoLoginForm) : login(method, form)

LogoutRequest == phase = "serving" /\ logout

SettingsRequest ==
    /\ phase = "serving"
    /\ \E method \in Methods :
          \E form \in FormsOf(method, SettingsForms, NoSettingsForm) :
             settings(method, form)

IndexRequest ==
    /\ phase = "serving"
    /\ \E method \in Methods :
       \E form \in FormsOf(method, MovieForms, NoMovieForm) :
          /\ IF method = "POST" /\ IsAuthenticated
                   /\ ~index_invalid(form.title, form.year)
             THEN NextId(movies) <= MaxMovieId
             ELSE TRUE
          /\ index(method, form)

EditRequest ==
    /\ phase = "serving"
    /\ \E method \in Methods, movie_id \in MovieIdInputs :
          \E form \in FormsOf(method, MovieForms, NoMovieForm) :
             edit(method, movie_id, form)

DeleteRequest ==
    /\ phase = "serving"
    /\ \E movie_id \in MovieIdInputs : delete(movie_id)

Next ==
    \/ Initdb
    \/ Forge
    \/ Admin
    \/ Serve
    \/ LoginRequest
    \/ LogoutRequest
    \/ SettingsRequest
    \/ IndexRequest
    \/ EditRequest
    \/ DeleteRequest

Spec == Init /\ [][Next]_vars

-----------------------------------------------------------------------------
(* Properties *)

Serving == phase = "serving"

\* the step is a request that the view `endpoint` answered
Answered(endpoint, method) ==
    Serving /\ last'.endpoint = endpoint /\ last'.method = method

\* a form's title and year as the specification wants them
TitleOk(form) ==
    IF form.title = None THEN FALSE
    ELSE form.title[1] # "" /\ Len(form.title[1]) <= 60
YearOk(form) ==
    IF form.year = None THEN FALSE
    ELSE Len(form.year[1]) = 4

\* the title is empty or longer than 60, or the year is empty or not 4 long
TitleBad(form) ==
    IF form.title = None THEN FALSE
    ELSE form.title[1] = "" \/ Len(form.title[1]) > 60
YearBad(form) ==
    IF form.year = None THEN FALSE
    ELSE form.year[1] = "" \/ Len(form.year[1]) # 4

\* the submitted username is the admin's and the password fits the admin's hash
CredentialsMatch(form) ==
    IF users = <<>> \/ form.username = None \/ form.password = None THEN FALSE
    ELSE /\ form.username = users[1].username
         /\ check_password_hash(users[1].password_hash, form.password[1]) = Return(TRUE)

BothSubmitted(form) == form.username # None /\ form.password # None
SomeEmpty(form) == form.username = Some("") \/ form.password = Some("")

\* C1: an anonymous POST to the create, edit or delete endpoint, for any id and
\* any form, leaves the movie table unchanged and is answered by a redirect;
\* for edit and delete the redirect goes to the login view.
C1_AnonymousPostRedirects ==
    [][/\ (Answered("index", "POST") /\ ~IsAuthenticated) =>
             (movies' = movies /\ last'.status = 302)
       /\ (Answered("edit", "POST") /\ ~IsAuthenticated) =>
             (movies' = movies /\ last'.status = 302 /\ last'.location = "login")
       /\ (Answered("delete", "POST") /\ ~IsAuthenticated) =>
             (movies' = movies /\ last'.status = 302 /\ last'.location = "login")
      ]_vars

\* an anonymous delete of a movie that exists was sent to the login view
C1_Witness ==
    /\ ~IsAuthenticated
    /\ last.endpoint = "delete"
    /\ last.movie_id \in Ids(movies)
    /\ last.status = 302
    /\ last.location = "login"

\* C2 as amended: a login POST authenticates exactly when the username is the
\* admin's and the password fits the stored hash; every other submission leaves
\* the session as it was; with both fields non-empty and a user row present the
\* failure message is "Invalid username or password." whichever field was
\* wrong, and with an empty field it is "Invalid input.".
C2_LoginGenericFailure ==
    [][Answered("login", "POST") =>
        \A form \in LoginForms :
          login("POST", form) =>
             IF CredentialsMatch(form)
             THEN /\ session' = Some(users[1].id)
                  /\ last'.flash = "Login success."
             ELSE /\ session' = session
                  /\ (BothSubmitted(form) /\ ~SomeEmpty(form) /\ users # <<>>) =>
                        /\ last'.status = 302
                        /\ last'.location = "login"
                        /\ last'.flash = "Invalid username or password."
                  /\ (BothSubmitted(form) /\ SomeEmpty(form)) =>
                        /\ last'.status = 302
                        /\ last'.location = "login"
                        /\ last'.flash = "Invalid input."]_vars

\* a failed login against a provisioned admin, the session still anonymous
C2_Witness ==
    /\ users # <<>>
    /\ users[1].password_hash # None
    /\ session = None
    /\ last.endpoint = "login"
    /\ last.flash = "Invalid username or password."

\* C2 as stated: with an admin provisioned, every submission that does not
\* match, empty fields included, leaves the session alone and gets the one
\* generic failure message.
C2_Original ==
    [][(Answered("login", "POST") /\ users # <<>>
           /\ users[1].password_hash # None) =>
        \A form \in LoginForms :
          (BothSubmitted(form) /\ ~CredentialsMatch(form) /\ login("POST", form)) =>
             /\ session' = session
             /\ last'.flash = "Invalid username or password."]_vars

\* C3: an authenticated create whose title is empty or longer than 60, or whose
\* year is empty or not 4 characters long, persists nothing and is answered by
\* a redirect with the flash "Invalid input.".
C3_InvalidCreateRejected ==
    [][(Answered("index", "POST") /\ IsAuthenticated) =>
        \A form \in MovieForms :
          ((TitleBad(form) \/ YearBad(form)) /\ index("POST", form)) =>
             /\ movies' = movies
             /\ last'.status = 302
             /\ last'.flash = "Invalid input."]_vars

\* an authenticated create was refused
C3_Witness ==
    /\ IsAuthenticated
    /\ last.endpoint = "index"
    /\ last.method = "POST"
    /\ last.flash = "Invalid input."

\* C4: an authenticated create with a valid title and year appends exactly one
\* record with an id not in the catalog, holding the submitted title and year;
\* reading it by that id returns them; the earlier records are unchanged.
C4_ValidCreateAppends ==
    [][(Answered("index", "POST") /\ IsAuthenticated) =>
        \A form \in MovieForms :
          (TitleOk(form) /\ YearOk(form) /\ index("POST", form)) =>
             \E id \in 1 .. (MaxMovieId + 1) :
                /\ id \notin Ids(movies)
                /\ movies' = Append(movies, [id |-> id, title |-> form.title[1],
                                             year |-> form.year[1]])
                /\ Cardinality(Ids(movies')) = Len(movies) + 1
                /\ Get(movies', id) = Some([id |-> id, title |-> form.title[1],
                                            year |-> form.year[1]])]_vars

\* a record was created next to an earlier one
C4_Witness ==
    /\ last.endpoint = "index"
    /\ last.flash = "Item created."
    /\ Len(movies) >= 2

\* C5: an authenticated delete of an existing id removes exactly that record;
\* the same delete issued again right after is answered 404 and leaves the
\* catalog as the first one left it.
C5_DeleteTwice ==
    [][(Answered("delete", "POST") /\ IsAuthenticated) =>
          LET movie_id == last'.movie_id IN
             /\ movie_id \in Ids(movies) =>
                   /\ Ids(movies') = Ids(movies) \ {movie_id}
                   /\ \A id \in Ids(movies') : Get(movies', id) = Get(movies, id)
                   /\ last'.status = 302
             /\ (last.endpoint = "delete" /\ last.movie_id = movie_id
                    /\ last.flash = "Item deleted.") =>
                   /\ last'.status = 404
                   /\ movies' = movies]_vars

\* a delete answered 404 for an id below one still in the catalog: the id was
\* handed out and its record deleted before
C5_Witness ==
    /\ IsAuthenticated
    /\ last.endpoint = "delete"
    /\ last.status = 404
    /\ \E id \in Ids(movies) : last.movie_id < id

\* C6: an authenticated edit POST validates as create does; an absent id is
\* answered 404 and changes nothing; a present id with invalid input keeps the
\* record; a present id with valid input overwrites title and year of that
\* record and changes no other record and no id.
C6_EditOverwrites ==
    [][(Answered("edit", "POST") /\ IsAuthenticated) =>
        LET movie_id == last'.movie_id IN
        \A form \in MovieForms :
          edit("POST", movie_id, form) =>
             /\ (form.title # None /\ form.year # None) =>
                   (edit_invalid(form.title[1], form.year[1])
                       <=> index_invalid(form.title, form.year))
             /\ IF movie_id \notin Ids(movies)
                THEN last'.status = 404 /\ movies' = movies
                ELSE IF TitleOk(form) /\ YearOk(form)
                     THEN /\ Len(movies') = Len(movies)
                          /\ \A i \in 1 .. Len(movies) :
                                movies'[i] =
                                   IF movies[i].id = movie_id
                                   THEN [id |-> movie_id,
                                         title |-> form.title[1],
                                         year |-> form.year[1]]
                                   ELSE movies[i]
                     ELSE movies' = movies]_vars

\* an edit went through in a catalog of two
C6_Witness ==
    /\ last.endpoint = "edit"
    /\ last.flash = "Item updated."
    /\ Len(movies) >= 2

\* C7: an authenticated settings POST with an empty or too long name leaves
\* the stored name, queues a flash and redirects to the settings form; a valid
\* name is stored and the answer redirects to the catalog.
C7_SettingsRecovers ==
    [][(Answered("settings", "POST") /\ IsAuthenticated) =>
        \A form \in SettingsForms :
          (form.name # None /\ settings("POST", form)) =>
             IF form.name[1] = "" \/ Len(form.name[1]) > 20
             THEN /\ users' = users
                  /\ last'.flash # ""
                  /\ last'.status = 302
                  /\ last'.location = "settings"
             ELSE /\ Get(users', session[1])[1].name = form.name[1]
                  /\ last'.status = 302
                  /\ last'.location = "index"]_vars

\* C9: logout ends anonymous from any state; the session leaves anonymous only
\* by a successful login; and while it is anonymous no create, edit, delete or
\* settings request changes a movie or user record.
C9_LoggedOutCannotWrite ==
    [][/\ (Serving /\ logout) => (session' = None /\ ~IsAuthenticated')
       /\ (Serving /\ ~IsAuthenticated /\ IsAuthenticated') =>
             (last'.endpoint = "login" /\ last'.flash = "Login success.")
       /\ (Serving /\ ~IsAuthenticated
              /\ last'.endpoint \in {"index", "edit", "delete", "settings"}) =>
             (users' = users /\ movies' = movies)]_vars

\* a logout was carried out
C9_Witness ==
    /\ last.endpoint = "logout"
    /\ last.flash = "Goodbye."
    /\ session = None
    /\ movies # <<>>

\* C10: every movie record has a non-empty title of at most 60 characters and
\* a year of exactly 4, and the ids are distinct.
C10_CatalogWellFormed ==
    /\ \A i \in 1 .. Len(movies) :
          /\ movies[i].title # ""
          /\ Len(movies[i].title) <= 60
          /\ Len(movies[i].year) = 4
    /\ Cardinality(Ids(movies)) = Len(movies)

\* an edit of one of two records was refused
C10_Witness ==
    /\ Len(movies) >= 2
    /\ last.endpoint = "edit"
    /\ last.flash = "Invalid input."

-----------------------------------------------------------------------------
(* The credential store alone: User.set_password and User.validate_password  *)
(* called on a user object, as admin and login call them                     *)

ShellPasswords == {"", "secret", "hunter2"}
ShellSalts == {"s1", "s2"}

\* the user objects the commands construct: forge's User(name=name), and
\* admin's User(username=username, name='Admin') before set_password
UserObjects ==
    {User(1, "Grey Li", None)} \cup {User(1, "Admin", Some(u)) : u \in Usernames}

InitCred ==
    /\ phase = "shell"
    /\ users \in {<<u>> : u \in UserObjects}
    /\ movies = <<>>
    /\ session = None
    /\ last = NoRequest
    /\ ret = None

SetPassword ==
    /\ \E password \in ShellPasswords, salt \in ShellSalts :
          users' = [users EXCEPT ![1] = set_password(users[1], password, salt)]
    /\ UNCHANGED <<phase, movies, session, last, ret>>

ValidatePassword ==
    /\ \E password \in ShellPasswords :
          ret' = Some([password |-> password,
                       outcome |-> validate_password(users[1], password)])
    /\ UNCHANGED <<phase, users, movies, session, last>>

NextCred == SetPassword \/ ValidatePassword

SpecCred == InitCred /\ [][NextCred]_vars

\* C8: validate_password on a user without a stored hash returns false for
\* every plaintext.
C8_FailsClosed ==
    (ret # None /\ users[1].password_hash = None) =>
       ret[1].outcome = Return(FALSE)

====
